---------------------------- MODULE Spec2Model ----------------------------
(***************************************************************************)
(* A model of lensit/__init__.py: the factories get_ellmat, get_fidcls,    *)
(* get_lencmbs_lib, get_maps_lib, get_isocov and get_config, run by a      *)
(* group of cooperating workers (pbs.rank, pbs.barrier) over on-disk phase *)
(* and simulation caches.                                                  *)
(*                                                                         *)
(* Three specifications share the module:                                  *)
(*   Spec     a group of NWorkers workers runs one factory call with the   *)
(*            same arguments, up to MaxCalls times; the state is each      *)
(*            worker's position and the caches on disk.  A worker may die  *)
(*            inside its generation loop.                                  *)
(*   SpecLive one run of the call in which no worker dies, under weak      *)
(*            fairness of every worker's steps.                            *)
(*   SpecCfg  one factory call evaluated as a function of its arguments    *)
(*            (errors, geometry, cache directories), the arguments drawn   *)
(*            from the full resolution range.                              *)
(***************************************************************************)
EXTENDS Integers, Sequences, FiniteSets, TLC

VARIABLES call, pc, stage, idx, full, nbar, io, pha, sims, pha0, cfg, res,
          ncall, inflight

vars == <<call, pc, stage, idx, full, nbar, io, pha, sims, pha0, cfg, res,
          ncall, inflight>>

(***************************************************************************)
(* Bounds of the model.                                                    *)
(***************************************************************************)
\* number of workers of the group (ranks 0..NWorkers-1)
NWorkers == 2
\* largest nsims a call of Spec is made with
MaxSims == 2
\* largest nsims a call of SpecCfg is made with
MaxSimsCfg == 2
\* number of times the group runs its call, one run after the other
MaxCalls == 2

(***************************************************************************)
(* Program constants.                                                      *)
(***************************************************************************)
LMAX_SKY == 5120
\* the largest resolution the assertion of get_ellmat lets through
RES_MAX == 14
\* the base cell is sqrt(4 pi) / 2 ** CELL_LOG2
CELL_LOG2 == 14

Workers == 0 .. (NWorkers - 1)
\* pbs.rank of a worker
rank(w) == w

(***************************************************************************)
(* Arithmetic helpers.  A quantity 2 ** k of the code is kept as the exact *)
(* fraction <<num, den>>: Python gives an int for k >= 0 and the exact     *)
(* float 1 / 2 ** -k for k < 0.                                            *)
(***************************************************************************)
RECURSIVE Pow(_, _)
Pow(b, e) == IF e = 0 THEN 1 ELSE b * Pow(b, e - 1)

RECURSIVE Gcd(_, _)
Gcd(a, b) == IF b = 0 THEN a ELSE Gcd(b, a % b)

NormQ(n, d) == LET g == Gcd(n, d) IN <<n \div g, d \div g>>

Pow2Q(k) == IF k >= 0 THEN <<Pow(2, k), 1>> ELSE <<1, Pow(2, -k)>>

MulQ(a, b) == LET x == NormQ(a[1], b[2])
                  y == NormQ(b[1], a[2])
              IN  <<x[1] * y[1], x[2] * y[2]>>

\* np.round of the fraction n / d: to the nearest integer, halves to even
RoundHalfEven(n, d) ==
    LET q == n \div d
        r == n % d
    IN  IF 2 * r < d THEN q
        ELSE IF 2 * r > d THEN q + 1
        ELSE IF q % 2 = 0 THEN q ELSE q + 1

\* '%04d' % n
Fmt04d(n) ==
    IF n < 10 THEN "000" \o ToString(n)
    ELSE IF n < 100 THEN "00" \o ToString(n)
    ELSE IF n < 1000 THEN "0" \o ToString(n)
    ELSE ToString(n)

\* os.path.join of a non-empty sequence of segments
RECURSIVE path_join(_)
path_join(segs) ==
    IF Len(segs) = 1 THEN segs[1]
    ELSE path_join(SubSeq(segs, 1, Len(segs) - 1)) \o "/" \o segs[Len(segs)]

\* wrotation * '_wcurl'
wcurl(wrotation) == IF wrotation THEN "_wcurl" ELSE ""

(***************************************************************************)
(* The environment.  c.LENSIT is the value of the LENSIT variable, or      *)
(* EnvUnset when the variable is not in os.environ.                        *)
(***************************************************************************)
EnvUnset == "(unset)"

\* the assertion of line 17 left out
lensitdir_ok_noassert(c) == TRUE

\* the assertion of _get_lensitdir
lensitdir_ok(c) == c.LENSIT # EnvUnset

\* _get_lensitdir()[0]
LENSITDIR(c) == c.LENSIT

(***************************************************************************)
(* get_config: the registry of experiments.  A noise level is              *)
(* num / den * sqrt(2) ^ s, a beam width the fraction <<num, den>>.        *)
(***************************************************************************)
Lvl(n, d, s) == [num |-> n, den |-> d, s |-> s]

Cfg(sN, beam, lmin, lmax) ==
    [sN_uKamin |-> sN, Beam_FWHM_amin |-> beam, ellmin |-> lmin, ellmax |-> lmax]

Registry ==
    [e \in {"Planck", "Planck_65", "S4", "S4_opti", "S4_SPDP", "S4_opti_6000",
            "S5", "S6", "SO", "SOb1", "PB85", "PB5", "fcy_mark",
            "5muKamin_1amin", "Planck45", "Planck45_lmax3000"} |->
        CASE e = "Planck"            -> Cfg(Lvl(35, 1, 0), <<7, 1>>, 10, 2048)
          [] e = "Planck_65"         -> Cfg(Lvl(35, 1, 0), <<13, 2>>, 100, 2048)
          [] e = "S4"                -> Cfg(Lvl(3, 2, 0), <<3, 1>>, 10, 3000)
          [] e = "S4_opti"           -> Cfg(Lvl(1, 1, 0), <<1, 1>>, 10, 3000)
          [] e = "S4_SPDP"           -> Cfg(Lvl(1, 2, -1), <<1, 1>>, 10, 4096)
          [] e = "S4_opti_6000"      -> Cfg(Lvl(1, 1, 0), <<1, 1>>, 10, 6000)
          [] e = "S5"                -> Cfg(Lvl(3, 8, 0), <<3, 1>>, 10, 3000)
          [] e = "S6"                -> Cfg(Lvl(3, 32, 0), <<3, 1>>, 10, 3000)
          [] e = "SO"                -> Cfg(Lvl(3, 1, 0), <<3, 1>>, 10, 3000)
          [] e = "SOb1"              -> Cfg(Lvl(3, 1, 0), <<1, 1>>, 10, 3000)
          [] e = "PB85"              -> Cfg(Lvl(17, 2, -1), <<7, 2>>, 10, 3000)
          [] e = "PB5"               -> Cfg(Lvl(5, 1, -1), <<7, 2>>, 10, 3000)
          [] e = "fcy_mark"          -> Cfg(Lvl(5, 1, 0), <<7, 5>>, 10, 3000)
          [] e = "5muKamin_1amin"    -> Cfg(Lvl(5, 1, 0), <<1, 1>>, 10, 3000)
          [] e = "Planck45"          -> Cfg(Lvl(45, 1, 0), <<5, 1>>, 10, 2048)
          [] e = "Planck45_lmax3000" -> Cfg(Lvl(45, 1, 0), <<5, 1>>, 10, 3000)]

\* the values the else branch assigns before its assertion
ConfigDefault == Cfg(Lvl(0, 1, 0), <<0, 1>>, 0, 0)

NoLvl == Lvl(0, 0, 0)

\* the polarization level left equal to the temperature level
sN_uKaminP_same(sN) == sN

\* sN_uKaminP or np.sqrt(2.) * sN_uKamin, sN_uKaminP being None
sN_uKaminP_of(sN) ==
    IF sN.num = 0 THEN Lvl(0, 1, 0) ELSE Lvl(sN.num, sN.den, sN.s + 1)

ConfigTuple(v) ==
    [err |-> "none", sN_uKamin |-> v.sN_uKamin,
     sN_uKaminP |-> sN_uKaminP_of(v.sN_uKamin),
     Beam_FWHM_amin |-> v.Beam_FWHM_amin, ellmin |-> v.ellmin, ellmax |-> v.ellmax]

\* a call that raised: nothing is returned
Raised(kind) ==
    [err |-> kind, sN_uKamin |-> NoLvl, sN_uKaminP |-> NoLvl,
     Beam_FWHM_amin |-> <<0, 0>>, ellmin |-> -1, ellmax |-> -1]

\* get_config with the assertion of its else branch left out
get_config_noassert(exp) ==
    IF exp \in DOMAIN Registry THEN ConfigTuple(Registry[exp])
    ELSE ConfigTuple(ConfigDefault)

get_config(exp) ==
    IF exp \in DOMAIN Registry THEN ConfigTuple(Registry[exp])
    ELSE Raised("experiment")

(***************************************************************************)
(* get_ellmat.  Lengths are in units of the base cell sqrt(4 pi) / 2^14.   *)
(***************************************************************************)
NoGeom == [err |-> "none", lib_dir |-> "", shape |-> <<0, 1>>, lsides |-> <<0, 1>>]

\* the assertion of line 66
ellmat_assert(LD_res, HD_res) == HD_res <= RES_MAX /\ LD_res <= RES_MAX

\* the directory name with the separator between the two resolutions left out
ellmat_libdir_nosep(c, LD_res, HD_res) ==
    path_join(<<LENSITDIR(c), "temp", "ellmats",
                "ellmat_" \o ToString(HD_res) \o ToString(LD_res)>>)

ellmat_libdir(c, LD_res, HD_res) ==
    path_join(<<LENSITDIR(c), "temp", "ellmats",
                "ellmat_" \o ToString(HD_res) \o "_" \o ToString(LD_res)>>)

\* the cell side with the two resolutions exchanged
lcell_units_swapped(LD_res, HD_res) == Pow2Q(LD_res - HD_res)

\* line 67: lcell_rad in units of the base cell sqrt(4 pi) / 2 ** 14
lcell_units(LD_res, HD_res) == Pow2Q(HD_res - LD_res)

get_ellmat(c, LD_res, HD_res) ==
    IF ~ellmat_assert(LD_res, HD_res) THEN [NoGeom EXCEPT !.err = "resolution"]
    ELSE LET lcell_rad == lcell_units(LD_res, HD_res)
             shape     == Pow2Q(LD_res)
             lsides    == MulQ(lcell_rad, Pow2Q(LD_res))
         IN  IF ~lensitdir_ok(c) THEN [NoGeom EXCEPT !.err = "env"]
             ELSE [err |-> "none", lib_dir |-> ellmat_libdir(c, LD_res, HD_res),
                   shape |-> shape, lsides |-> lsides]

\* int(np.round(np.prod(lsides) / 4. / np.pi * 1000.)) of a square patch of
\* side lside base cells: 1000 * lside^2 / 4^14, rounded
fsky_of(lside) ==
    LET q == MulQ(MulQ(lside, lside), <<1, Pow(4, CELL_LOG2)>>)
    IN  RoundHalfEven(1000 * q[1], q[2])

(***************************************************************************)
(* get_fidcls.  c.clsfile stands for the content of the fiducial spectra   *)
(* files of the package; io lists the files read, in order.                *)
(***************************************************************************)
NoCls == [file |-> "", lmax |-> -1, oo |-> FALSE]

get_fidcls(c, ellmax_sky, wrotationCls) ==
    IF ~lensitdir_ok(c) THEN [err |-> "env", cls_unl |-> NoCls, cls_len |-> NoCls, io |-> <<>>]
    ELSE [err |-> "none",
          cls_unl |-> [file |-> c.clsfile, lmax |-> ellmax_sky, oo |-> wrotationCls],
          cls_len |-> [file |-> c.clsfile, lmax |-> ellmax_sky, oo |-> FALSE],
          io |-> <<"fiducial_flatsky_lenspotentialCls.dat">>
                 \o (IF wrotationCls THEN <<"fiducial_fieldrotationCls.dat">> ELSE <<>>)
                 \o <<"fiducial_flatsky_lensedCls.dat">>]

(***************************************************************************)
(* The cache directories.                                                  *)
(***************************************************************************)
sims_root(c, nsims, fsky) ==
    <<LENSITDIR(c), "temp", ToString(nsims) \o "_sims", "fsky" \o Fmt04d(fsky)>>

\* line 96
skypha_libdir(c, nsims, fsky, wrotation) ==
    path_join(sims_root(c, nsims, fsky) \o <<"len_alms", "skypha" \o wcurl(wrotation)>>)

\* a lensed-sky directory that names the spectra file too
len_sims_libdir_cls(c, nsims, fsky, wrotation) ==
    path_join(sims_root(c, nsims, fsky) \o <<"len_alms" \o wcurl(wrotation), c.clsfile>>)

\* line 104
len_sims_libdir(c, nsims, fsky, wrotation) ==
    path_join(sims_root(c, nsims, fsky) \o <<"len_alms" \o wcurl(wrotation)>>)

\* a noise-phase directory below the experiment's
pixpha_libdir_exp(c, nsims, fsky, LDres) ==
    path_join(sims_root(c, nsims, fsky) \o <<"res" \o ToString(LDres), c.exp, "pixpha">>)

\* line 137
pixpha_libdir(c, nsims, fsky, LDres) ==
    path_join(sims_root(c, nsims, fsky) \o <<"res" \o ToString(LDres), "pixpha">>)

\* line 144
maps_sims_libdir(c, nsims, fsky, LDres, wrotation) ==
    path_join(sims_root(c, nsims, fsky)
              \o <<"res" \o ToString(LDres), c.exp, "maps" \o wcurl(wrotation)>>)

\* line 172
isocov_libdir(c, LD_res, HD_res) ==
    path_join(<<LENSITDIR(c), "temp", "Covs", c.exp,
                "LD" \o ToString(LD_res) \o "HD" \o ToString(HD_res)>>)

(***************************************************************************)
(* The factories as functions of the call c: the error raised, if any, the *)
(* directories computed and the files read.  The phase fill and the        *)
(* barriers between these steps are the actions of Spec.                   *)
(***************************************************************************)
NoLib ==
    [err |-> "none", fsky |-> -1, lsides |-> <<0, 1>>, shape |-> <<0, 1>>,
     skypha_libdir |-> "", len_libdir |-> "", pixpha_libdir |-> "",
     sims_libdir |-> "", cls_unl |-> NoCls, cache_lens |-> FALSE,
     cache_sims |-> FALSE, io |-> <<>>]

LibFail(kind, io_done) == [NoLib EXCEPT !.err = kind, !.io = io_done]

\* get_lencmbs_lib(res, wrotation, cache_sims, nsims)
get_lencmbs_lib(c, res_, wrotation, cache_sims, nsims) ==
    LET HD_ellmat == get_ellmat(c, res_, res_)
    IN  IF HD_ellmat.err # "none" THEN LibFail(HD_ellmat.err, <<>>)
        ELSE LET fsky == fsky_of(HD_ellmat.lsides)
                 fid  == get_fidcls(c, LMAX_SKY, wrotation)
             IN  IF fid.err # "none" THEN LibFail(fid.err, <<>>)
                 ELSE [NoLib EXCEPT
                         !.fsky = fsky,
                         !.lsides = HD_ellmat.lsides,
                         !.shape = HD_ellmat.shape,
                         !.skypha_libdir = skypha_libdir(c, nsims, fsky, wrotation),
                         !.len_libdir = len_sims_libdir(c, nsims, fsky, wrotation),
                         !.sims_libdir = len_sims_libdir(c, nsims, fsky, wrotation),
                         !.cls_unl = fid.cls_unl,
                         !.cache_lens = cache_sims,
                         !.io = fid.io]

\* get_maps_lib(exp, LDres, HDres, wrotation, cache_lenalms, cache_maps, nsims)
get_maps_lib(c) ==
    LET conf == get_config(c.exp)
    IN  IF conf.err # "none" THEN LibFail(conf.err, <<>>)
        ELSE LET len_cmbs == get_lencmbs_lib(c, c.HD, c.wrotation, c.cache_lens, c.nsims)
             IN  IF len_cmbs.err # "none" THEN len_cmbs
                 ELSE LET LD_ellmat == get_ellmat(c, c.LD, c.HD)
                          fsky == fsky_of(len_cmbs.lsides)
                      IN  IF LD_ellmat.err # "none"
                          THEN LibFail(LD_ellmat.err, len_cmbs.io)
                          ELSE [len_cmbs EXCEPT
                                  !.shape = LD_ellmat.shape,
                                  !.pixpha_libdir = pixpha_libdir(c, c.nsims, fsky, c.LD),
                                  !.sims_libdir =
                                      maps_sims_libdir(c, c.nsims, fsky, c.LD, c.wrotation),
                                  !.cache_sims = c.cache_maps]

\* get_isocov(exp, LD_res, HD_res)
get_isocov(c) ==
    LET conf == get_config(c.exp)
    IN  IF conf.err # "none" THEN LibFail(conf.err, <<>>)
        ELSE LET fid == get_fidcls(c, LMAX_SKY, FALSE)
             IN  IF fid.err # "none" THEN LibFail(fid.err, <<>>)
                 ELSE LET lib_alm == get_ellmat(c, c.LD, c.HD)
                      IN  IF lib_alm.err # "none" THEN LibFail(lib_alm.err, fid.io)
                          ELSE [NoLib EXCEPT
                                  !.lsides = lib_alm.lsides,
                                  !.shape = lib_alm.shape,
                                  !.sims_libdir = isocov_libdir(c, c.LD, c.HD),
                                  !.cls_unl = fid.cls_unl,
                                  !.io = fid.io]

(***************************************************************************)
(* The caches on disk.  An artifact records whether it exists, the ranks   *)
(* that wrote it during the run and how often it was written.              *)
(***************************************************************************)
Absent == [there |-> FALSE, by |-> {}, n |-> 0]

\* an artifact left by an earlier run
Stored == [there |-> TRUE, by |-> {}, n |-> 0]

Written(a, r, site) == [there |-> TRUE, by |-> a.by \cup {<<r, site>>}, n |-> a.n + 1]

\* ffs_lib_phas.is_full / pix_lib_phas.is_full: every index 0..nsims_max-1 exists
is_full(cache) == \A i \in DOMAIN cache : cache[i].there

\* ffs_lib_phas.get_sim / pix_lib_phas.get_sim: the realization is generated
\* and stored when it does not exist, and only read when it does
get_sim(cache, i, r, site) ==
    IF cache[i].there THEN cache
    ELSE [cache EXCEPT ![i] = Written(cache[i], r, site)]

\* sims_cmb_len.get_sim / lib_noisemap.get_sim of a returned library: the
\* product is stored when the library caches and it does not exist
lib_store(cache, i, r, caching) ==
    IF caching /\ ~cache[i].there
    THEN [cache EXCEPT ![i] = Written(cache[i], r, "library")]
    ELSE cache

\* pbs.barrier: a worker in its k-th barrier leaves it once every worker of
\* the group has entered its k-th barrier
barrier_open(w) == \A v \in Workers : nbar[v] >= nbar[w]

(***************************************************************************)
(* The fill step of lines 100-102 and 140-142.                             *)
(***************************************************************************)
\* the guard with the rank test left out
fill_guard_anyrank(isfull, r) == ~isfull

\* the guard with the rank test inverted
fill_guard_nonleader(isfull, r) == ~isfull /\ r # 0

\* the guard with the is_full test inverted
fill_guard_iffull(isfull, r) == isfull /\ r = 0

\* the guard with the is_full test left out
fill_guard_nofull(isfull, r) == r = 0

\* not pha.is_full() and pbs.rank == 0
fill_guard(isfull, r) == ~isfull /\ r = 0

\* the barrier moved into the body of the if
enters_barrier_inside_if(isfull, r) == ~isfull /\ r = 0

\* a barrier only the leader enters
enters_barrier_leader_only(isfull, r) == r = 0

\* lines 103 and 143: pbs.barrier() stands after the if, at the level of the
\* function body, so a worker enters it whatever is_full() and its rank were
enters_barrier(isfull, r) == TRUE

\* the loop run from the last index down
fill_seq_rev(nsims) == [k \in 1 .. nsims |-> nsims - k]

\* a loop that stops one index early
fill_seq_short(nsims) == [k \in 1 .. (nsims - 1) |-> k - 1]

\* np.arange(nsims)
fill_seq(nsims) == [k \in 1 .. nsims |-> k - 1]

\* cache_lens of the library get_lencmbs_lib returns to the worker of rank r
returned_cache_lens(c, r) == c.cache_lens

\* cache_sims of the library get_maps_lib returns to the worker of rank r
returned_cache_maps(c, r) == c.cache_maps

ErrPc(kind) == "err_" \o kind

ErrPcs == {ErrPc("experiment"), ErrPc("resolution"), ErrPc("env")}

(***************************************************************************)
(* Spec: the calls.                                                        *)
(***************************************************************************)
Registered == "Planck"
Unregistered == "not_a_real_experiment"
EnvSet == "/lensit"

ExpArgs == {Registered, Unregistered}
\* a resolution the assertion of get_ellmat accepts and one it rejects
ResArgs == {RES_MAX, RES_MAX + 1}
EnvArgs == {EnvSet, EnvUnset}
ClsFiles == {"planck2015", "other"}

DefaultCall ==
    [fn |-> "config", exp |-> Registered, LD |-> RES_MAX, HD |-> RES_MAX,
     nsims |-> 1, wrotation |-> FALSE, cache_lens |-> TRUE, cache_maps |-> FALSE,
     LENSIT |-> EnvSet, clsfile |-> "planck2015"]

Calls ==
    {[DefaultCall EXCEPT !.fn = "config", !.exp = e] : e \in ExpArgs \cup {"planck", ""}}
    \cup {[DefaultCall EXCEPT !.fn = "ellmat", !.LD = l, !.HD = h, !.LENSIT = v] :
             l \in ResArgs, h \in ResArgs, v \in EnvArgs}
    \cup {[DefaultCall EXCEPT !.fn = "fidcls", !.wrotation = wr, !.LENSIT = v] :
             wr \in BOOLEAN, v \in EnvArgs}
    \cup {[DefaultCall EXCEPT !.fn = "isocov", !.exp = e, !.LD = l, !.HD = h, !.LENSIT = v] :
             e \in ExpArgs, l \in ResArgs, h \in ResArgs, v \in EnvArgs}
    \cup {[DefaultCall EXCEPT !.fn = "lencmbs", !.LD = h, !.HD = h, !.nsims = n,
                               !.wrotation = wr, !.cache_lens = cl, !.LENSIT = v] :
             h \in ResArgs, n \in 1 .. MaxSims, wr \in BOOLEAN, cl \in BOOLEAN,
             v \in EnvArgs}
    \cup {[DefaultCall EXCEPT !.fn = "maps", !.exp = e, !.LD = l, !.HD = h, !.nsims = n,
                               !.cache_lens = cl, !.cache_maps = cm, !.LENSIT = v] :
             e \in ExpArgs, l \in ResArgs, h \in ResArgs, n \in 1 .. MaxSims,
             cl \in BOOLEAN, cm \in BOOLEAN, v \in EnvArgs}

Indices(c) == 0 .. (c.nsims - 1)

EmptyCache(c) == [i \in Indices(c) |-> Absent]

\* the phase caches a call may find on disk: any subset of the indices
\* stored by an earlier run
DiskStates(c) ==
    IF c.fn = "lencmbs"
    THEN {[sky |-> s, pix |-> EmptyCache(c)] : s \in [Indices(c) -> {Absent, Stored}]}
    ELSE IF c.fn = "maps"
    THEN [sky : [Indices(c) -> {Absent, Stored}], pix : [Indices(c) -> {Absent, Stored}]]
    ELSE {[sky |-> EmptyCache(c), pix |-> EmptyCache(c)]}

NoRes == [err |-> "pending"]

Init ==
    /\ call \in Calls
    /\ pha \in DiskStates(call)
    /\ pha0 = pha
    /\ sims = [len |-> EmptyCache(call), maps |-> EmptyCache(call)]
    /\ pc = [w \in Workers |-> "start"]
    /\ stage = [w \in Workers |-> "none"]
    /\ idx = [w \in Workers |-> 0]
    /\ full = [w \in Workers |-> FALSE]
    /\ nbar = [w \in Workers |-> 0]
    /\ io = [w \in Workers |-> <<>>]
    /\ cfg = DefaultCall
    /\ res = NoRes
    /\ ncall = 1
    /\ inflight = {}

\* get_maps_lib with the experiment lookup of line 126 moved behind the libraries
enter_outcome_lateconfig(c) ==
    CASE c.fn = "config"  -> LibFail(get_config(c.exp).err, <<>>)
      [] c.fn = "ellmat"  -> LibFail(get_ellmat(c, c.LD, c.HD).err, <<>>)
      [] c.fn = "fidcls"  -> LibFail(get_fidcls(c, LMAX_SKY, c.wrotation).err,
                                     get_fidcls(c, LMAX_SKY, c.wrotation).io)
      [] c.fn = "isocov"  -> get_isocov(c)
      [] c.fn \in {"lencmbs", "maps"} ->
            get_lencmbs_lib(c, c.HD, c.wrotation, c.cache_lens, c.nsims)

\* what the call does before its first fill step: the error it raises there,
\* if any, and the files it reads
enter_outcome(c) ==
    CASE c.fn = "config"  -> LibFail(get_config(c.exp).err, <<>>)
      [] c.fn = "ellmat"  -> LibFail(get_ellmat(c, c.LD, c.HD).err, <<>>)
      [] c.fn = "fidcls"  -> LibFail(get_fidcls(c, LMAX_SKY, c.wrotation).err,
                                     get_fidcls(c, LMAX_SKY, c.wrotation).io)
      [] c.fn = "isocov"  -> get_isocov(c)
      [] c.fn = "lencmbs" -> get_lencmbs_lib(c, c.HD, c.wrotation, c.cache_lens, c.nsims)
      [] c.fn = "maps"    ->
            IF get_config(c.exp).err # "none" THEN LibFail(get_config(c.exp).err, <<>>)
            ELSE get_lencmbs_lib(c, c.HD, c.wrotation, c.cache_lens, c.nsims)

\* enter_outcome as a table over the calls of Spec
enter_outcomes == [c \in Calls |-> enter_outcome(c)]

\* lines 126 and 91-99, or the whole of get_config, get_ellmat and get_isocov
Enter(w) ==
    /\ pc[w] = "start"
    /\ LET out == enter_outcomes[call]
       IN  /\ io' = [io EXCEPT ![w] = out.io]
           /\ IF out.err # "none"
              THEN pc' = [pc EXCEPT ![w] = ErrPc(out.err)] /\ stage' = stage
              ELSE IF call.fn \in {"lencmbs", "maps"}
              THEN pc' = [pc EXCEPT ![w] = "check"] /\ stage' = [stage EXCEPT ![w] = "sky"]
              ELSE pc' = [pc EXCEPT ![w] = "done"] /\ stage' = stage
    /\ UNCHANGED <<call, idx, full, nbar, pha, sims, pha0, cfg, res, ncall, inflight>>

\* lines 100 and 140: is_full() is evaluated by every worker, then the rank
Check(w) ==
    /\ pc[w] = "check"
    /\ LET f == is_full(pha[stage[w]])
       IN  /\ full' = [full EXCEPT ![w] = f]
           /\ pc' = [pc EXCEPT ![w] =
                        IF fill_guard(f, rank(w)) /\ Len(fill_seq(call.nsims)) > 0
                        THEN "fill"
                        ELSE IF enters_barrier(f, rank(w)) THEN "bar" ELSE "build"]
    /\ idx' = [idx EXCEPT ![w] = 1]
    /\ UNCHANGED <<call, stage, nbar, io, pha, sims, pha0, cfg, res, ncall, inflight>>

\* lines 101-102 and 141-142: one get_sim of the loop
Fill(w) ==
    /\ pc[w] = "fill"
    /\ LET seq == fill_seq(call.nsims)
           i   == seq[idx[w]]
       IN  /\ pha' = [pha EXCEPT ![stage[w]] = get_sim(@, i, rank(w), "factory")]
           /\ idx' = [idx EXCEPT ![w] = @ + 1]
           /\ pc' = [pc EXCEPT ![w] =
                        IF idx[w] < Len(seq) THEN "fill"
                        ELSE IF enters_barrier(full[w], rank(w)) THEN "bar" ELSE "build"]
    /\ UNCHANGED <<call, stage, full, nbar, io, sims, pha0, cfg, res, ncall, inflight>>

\* lines 103 and 143: the worker enters the barrier
Arrive(w) ==
    /\ pc[w] = "bar"
    /\ nbar' = [nbar EXCEPT ![w] = @ + 1]
    /\ pc' = [pc EXCEPT ![w] = "wait"]
    /\ UNCHANGED <<call, stage, idx, full, io, pha, sims, pha0, cfg, res, ncall, inflight>>

\* the worker leaves the barrier
Pass(w) ==
    /\ pc[w] = "wait"
    /\ barrier_open(w)
    /\ pc' = [pc EXCEPT ![w] = "build"]
    /\ UNCHANGED <<call, stage, idx, full, nbar, io, pha, sims, pha0, cfg, res, ncall, inflight>>

\* lines 104-105, then lines 128-138 in get_maps_lib; lines 144-146
Build(w) ==
    /\ pc[w] = "build"
    /\ IF call.fn = "maps" /\ stage[w] = "sky"
       THEN LET LD_ellmat == get_ellmat(call, call.LD, call.HD)
            IN  IF LD_ellmat.err # "none"
                THEN pc' = [pc EXCEPT ![w] = ErrPc(LD_ellmat.err)] /\ stage' = stage
                ELSE pc' = [pc EXCEPT ![w] = "check"]
                     /\ stage' = [stage EXCEPT ![w] = "pix"]
       ELSE pc' = [pc EXCEPT ![w] = "done"] /\ stage' = stage
    /\ UNCHANGED <<call, idx, full, nbar, io, pha, sims, pha0, cfg, res, ncall, inflight>>

\* a worker asks the library it was returned for simulation i
LibGetSim(w, i) ==
    /\ pc[w] = "done"
    /\ call.fn \in {"lencmbs", "maps"}
    /\ pha' = [pha EXCEPT
                 !.sky = get_sim(@, i, rank(w), "library"),
                 !.pix = IF call.fn = "maps" THEN get_sim(@, i, rank(w), "library") ELSE @]
    /\ sims' = [sims EXCEPT
                 !.len = lib_store(@, i, rank(w), returned_cache_lens(call, rank(w))),
                 !.maps = IF call.fn = "maps"
                          THEN lib_store(@, i, rank(w), returned_cache_maps(call, rank(w)))
                          ELSE @]
    /\ UNCHANGED <<call, pc, stage, idx, full, nbar, io, pha0, cfg, res, ncall, inflight>>

\* the process of worker w dies inside its generation loop: between two
\* get_sim, or inside the get_sim that was writing realization seq[idx[w]],
\* which then stays behind unfinished
Crash(w) ==
    /\ pc[w] = "fill"
    /\ pc' = [pc EXCEPT ![w] = "crashed"]
    /\ \E writing \in BOOLEAN :
          LET i == fill_seq(call.nsims)[idx[w]]
          IN  inflight' = IF writing /\ ~pha[stage[w]][i].there
                          THEN inflight \cup {<<stage[w], i>>}
                          ELSE inflight
    /\ UNCHANGED <<call, stage, idx, full, nbar, io, pha, sims, pha0, cfg, res, ncall>>

\* what a run leaves on disk for the next one
settled(cache) == [i \in DOMAIN cache |-> IF cache[i].there THEN Stored ELSE Absent]

Terminated == \A w \in Workers : pc[w] \in {"done"} \cup ErrPcs

\* every worker has returned from the call or raised: the group makes the
\* same call again, over the caches the earlier run left
Again ==
    /\ Terminated
    /\ ncall < MaxCalls
    /\ ncall' = ncall + 1
    /\ pha' = [s \in DOMAIN pha |-> settled(pha[s])]
    /\ pha0' = pha'
    /\ sims' = [s \in DOMAIN sims |-> settled(sims[s])]
    /\ pc' = [w \in Workers |-> "start"]
    /\ stage' = [w \in Workers |-> "none"]
    /\ idx' = [w \in Workers |-> 0]
    /\ full' = [w \in Workers |-> FALSE]
    /\ nbar' = [w \in Workers |-> 0]
    /\ io' = [w \in Workers |-> <<>>]
    /\ UNCHANGED <<call, cfg, res, inflight>>

\* one step of the factory call on worker w
Step(w) ==
    \/ Enter(w)
    \/ Check(w)
    \/ Fill(w)
    \/ Arrive(w)
    \/ Pass(w)
    \/ Build(w)

Next ==
    \/ \E w \in Workers :
        \/ Step(w)
        \/ Crash(w)
        \/ \E i \in Indices(call) : LibGetSim(w, i)
    \/ Again

Spec == Init /\ [][Next]_vars

\* SpecLive: one run of the call in which no process dies and every worker
\* that can take a step of the call eventually takes it (each get_sim of the
\* loop terminates, the barrier lets a worker go once it is open)
NextLive == \E w \in Workers : Step(w)

SpecLive == Init /\ [][NextLive]_vars /\ \A w \in Workers : WF_vars(Step(w))

(***************************************************************************)
(* SpecCfg: one call, evaluated as a function of its arguments.            *)
(***************************************************************************)
\* every resolution the assertion accepts, from one below zero, and one it rejects
ResCfg == (0 - 1) .. (RES_MAX + 1)
ExpCfg == {"Planck", "S4", Unregistered}

CfgCalls ==
    {[DefaultCall EXCEPT !.fn = "config", !.exp = e] :
        e \in DOMAIN Registry \cup {Unregistered, ""}}
    \cup {[DefaultCall EXCEPT !.fn = "ellmat", !.LD = l, !.HD = h, !.LENSIT = v] :
             l \in ResCfg, h \in ResCfg, v \in EnvArgs}
    \cup {[DefaultCall EXCEPT !.fn = "fidcls", !.wrotation = wr, !.LENSIT = v] :
             wr \in BOOLEAN, v \in EnvArgs}
    \cup {[DefaultCall EXCEPT !.fn = "isocov", !.exp = e, !.LD = l, !.HD = h, !.LENSIT = v] :
             e \in ExpCfg, l \in ResCfg, h \in ResCfg, v \in EnvArgs}
    \cup {[DefaultCall EXCEPT !.fn = "lencmbs", !.LD = h, !.HD = h, !.nsims = n,
                               !.wrotation = wr, !.clsfile = f, !.LENSIT = v] :
             h \in ResCfg, n \in 1 .. MaxSimsCfg, wr \in BOOLEAN, f \in ClsFiles,
             v \in EnvArgs}
    \cup {[DefaultCall EXCEPT !.fn = "maps", !.exp = e, !.LD = l, !.HD = h, !.nsims = n,
                               !.wrotation = wr, !.LENSIT = v] :
             e \in ExpCfg, l \in ResCfg, h \in ResCfg, n \in 1 .. MaxSimsCfg,
             wr \in BOOLEAN, v \in EnvArgs}

InitCfg ==
    /\ cfg \in CfgCalls
    /\ res = NoRes
    /\ call = DefaultCall
    /\ pha = [sky |-> EmptyCache(call), pix |-> EmptyCache(call)]
    /\ pha0 = pha
    /\ sims = [len |-> EmptyCache(call), maps |-> EmptyCache(call)]
    /\ pc = [w \in Workers |-> "start"]
    /\ stage = [w \in Workers |-> "none"]
    /\ idx = [w \in Workers |-> 0]
    /\ full = [w \in Workers |-> FALSE]
    /\ nbar = [w \in Workers |-> 0]
    /\ io = [w \in Workers |-> <<>>]
    /\ ncall = 1
    /\ inflight = {}

\* the value a call of the factory cfg.fn returns, or the error it raises
apply(c) ==
    CASE c.fn = "config"  -> get_config(c.exp)
      [] c.fn = "ellmat"  -> get_ellmat(c, c.LD, c.HD)
      [] c.fn = "fidcls"  -> get_fidcls(c, LMAX_SKY, c.wrotation)
      [] c.fn = "isocov"  -> get_isocov(c)
      [] c.fn = "lencmbs" -> get_lencmbs_lib(c, c.HD, c.wrotation, c.cache_lens, c.nsims)
      [] c.fn = "maps"    -> get_maps_lib(c)

CfgCall(fn) ==
    /\ cfg.fn = fn
    /\ res = NoRes
    /\ res' = apply(cfg)
    /\ UNCHANGED <<call, pc, stage, idx, full, nbar, io, pha, sims, pha0, cfg, ncall, inflight>>

CfgConfig == CfgCall("config")
CfgEllmat == CfgCall("ellmat")
CfgFidcls == CfgCall("fidcls")
CfgIsocov == CfgCall("isocov")
CfgLencmbs == CfgCall("lencmbs")
CfgMaps == CfgCall("maps")

NextCfg == CfgConfig \/ CfgEllmat \/ CfgFidcls \/ CfgIsocov \/ CfgLencmbs \/ CfgMaps

SpecCfg == InitCfg /\ [][NextCfg]_vars

(***************************************************************************)
(* Properties of Spec.                                                     *)
(***************************************************************************)
Leader == 0
NonLeaders == Workers \ {Leader}
Stages == {"sky", "pix"}

\* worker w has left the barrier that follows the fill of phase cache s
passed(w, s) ==
    \/ stage[w] = s /\ pc[w] \in {"build", "done"} \cup ErrPcs
    \/ s = "sky" /\ stage[w] = "pix"

\* worker w is past the fill step of phase cache s (its loop is over, or it
\* had none to run)
fill_over(w, s) ==
    \/ stage[w] = s /\ pc[w] \in {"bar", "wait", "build", "done"} \cup ErrPcs
    \/ s = "sky" /\ stage[w] = "pix"

generated(cache) == {i \in DOMAIN cache : cache[i].n > 0}
missing(cache) == {i \in DOMAIN cache : ~cache[i].there}

\* C1: a worker of rank != 0 has left the barrier of a phase cache only if
\* rank 0 is past its fill loop for that cache, and the cache then holds
\* every index 0..nsims-1.
C1_BarrierAfterFill ==
    \A w \in NonLeaders : \A s \in Stages :
        passed(w, s) => fill_over(Leader, s) /\ is_full(pha[s])

\* a non-leader has returned from get_maps_lib, both phase caches having
\* been incomplete when the call began
C1_Witness ==
    \E w \in NonLeaders :
        /\ call.fn = "maps" /\ pc[w] = "done"
        /\ ~is_full(pha0.sky) /\ ~is_full(pha0.pix)

\* C2: in the fill step only rank 0 calls get_sim: a worker of rank != 0 is
\* never in the loop and no realization was written by it from a factory,
\* whatever its own is_full() returned.
C2_OnlyLeaderFills ==
    /\ \A w \in NonLeaders : pc[w] # "fill"
    /\ \A s \in Stages : \A i \in DOMAIN pha[s] : \A e \in pha[s][i].by :
          e[2] = "factory" => e[1] = Leader

\* a non-leader whose is_full() returned false went on to the barrier while
\* the cache was still incomplete
C2_Witness ==
    \E w \in NonLeaders :
        /\ stage[w] = "sky" /\ pc[w] \in {"bar", "wait"}
        /\ ~full[w] /\ ~is_full(pha.sky)

C4_FillsExactlyMissing ==
    call.fn = "lencmbs" =>
        /\ \A i \in DOMAIN pha.sky : pha0.sky[i].there => pha.sky[i] = pha0.sky[i]
        /\ generated(pha.sky) \subseteq missing(pha0.sky)
        /\ fill_over(Leader, "sky") => generated(pha.sky) = missing(pha0.sky)

\* get_lencmbs_lib began with some indices stored and some missing, and the
\* leader has returned
C4_Witness ==
    /\ call.fn = "lencmbs" /\ pc[Leader] = "done"
    /\ \E i, j \in DOMAIN pha0.sky : pha0.sky[i].there /\ ~pha0.sky[j].there
    /\ generated(pha.sky) # {}

\* C9 as stated: a call of get_maps_lib or get_isocov that ends with a
\* configuration error has generated no phase realization and entered no
\* barrier.
C9_Original ==
    \A w \in Workers :
        (call.fn \in {"maps", "isocov"}
         /\ pc[w] \in {ErrPc("experiment"), ErrPc("resolution")})
        => /\ nbar[w] = 0
           /\ \A s \in Stages : generated(pha[s]) = {}

\* C10: get_config of a name that is not in the registry raises: no worker
\* returns from it, and nothing is read, written or waited for.
C10_UnknownExperimentRaises ==
    (call.fn = "config" /\ call.exp \notin DOMAIN Registry) =>
        /\ \A w \in Workers :
              /\ pc[w] \in {"start", ErrPc("experiment")}
              /\ io[w] = <<>> /\ nbar[w] = 0
        /\ pha = pha0
        /\ \A k \in {"len", "maps"} : \A i \in DOMAIN sims[k] : ~sims[k][i].there

\* every worker has called get_config with an unregistered name
C10_Witness ==
    /\ call.fn = "config" /\ call.exp \notin DOMAIN Registry
    /\ \A w \in Workers : pc[w] = ErrPc("experiment")

(***************************************************************************)
(* Properties of SpecCfg.  The state holds one evaluated call; a second    *)
(* call is the same call with some arguments changed.                      *)
(***************************************************************************)
\* the resolutions the claims range over
ResValid == 0 .. RES_MAX

evaluated(fn) == cfg.fn = fn /\ res # NoRes

\* the call cfg made with resolution h and with nsims, wrotation changed
lencmbs_with(h, n, wr) ==
    [cfg EXCEPT !.LD = h, !.HD = h, !.nsims = n, !.wrotation = wr]

maps_with(e, l, h, n, wr) ==
    [cfg EXCEPT !.exp = e, !.LD = l, !.HD = h, !.nsims = n, !.wrotation = wr]

\* C5 as stated: two calls of get_lencmbs_lib that differ in res, nsims or
\* wrotation have different sky-phase and lensed-sky directories, and so do
\* two calls of get_maps_lib that differ in HDres, nsims or wrotation; two
\* calls of get_maps_lib that differ in exp, LDres, HDres, nsims or
\* wrotation have different noisy-map directories (resolutions in 0..14).
C5_Original ==
    /\ (evaluated("lencmbs") /\ res.err = "none" /\ cfg.HD \in ResValid) =>
          \A h \in ResValid : \A n \in 1 .. MaxSimsCfg : \A wr \in BOOLEAN :
              LET b == lencmbs_with(h, n, wr)
                  rb == apply(b)
              IN  b # cfg => /\ rb.skypha_libdir # res.skypha_libdir
                             /\ rb.len_libdir # res.len_libdir
    /\ (evaluated("maps") /\ res.err = "none" /\ cfg.HD \in ResValid /\ cfg.LD \in ResValid) =>
          \A e \in ExpCfg \cap DOMAIN Registry : \A l \in ResValid : \A h \in ResValid :
          \A n \in 1 .. MaxSimsCfg : \A wr \in BOOLEAN :
              LET b == maps_with(e, l, h, n, wr)
                  rb == apply(b)
              IN  /\ (b.HD # cfg.HD \/ b.nsims # cfg.nsims \/ b.wrotation # cfg.wrotation)
                        => /\ rb.skypha_libdir # res.skypha_libdir
                           /\ rb.len_libdir # res.len_libdir
                  /\ b # cfg => rb.sims_libdir # res.sims_libdir

\* C6 as stated: two calls of get_maps_lib that differ only in exp use
\* different pixel-noise phase cache directories.
C6_Original ==
    (evaluated("maps") /\ res.err = "none" /\ cfg.LD \in ResValid /\ cfg.HD \in ResValid) =>
        \A e \in DOMAIN Registry \ {cfg.exp} :
            apply([cfg EXCEPT !.exp = e]).pixpha_libdir # res.pixpha_libdir

\* C6 amended: two calls of get_maps_lib that differ only in exp use the
\* same pixel-noise phase cache directory, which names no experiment; only
\* their noisy-map directories differ.
C6_NoisePhasesShared ==
    (evaluated("maps") /\ res.err = "none") =>
        \A e \in DOMAIN Registry \ {cfg.exp} :
            LET rb == apply([cfg EXCEPT !.exp = e])
            IN  /\ rb.err = "none"
                /\ rb.pixpha_libdir = res.pixpha_libdir
                /\ rb.sims_libdir # res.sims_libdir

\* get_maps_lib has returned the libraries of a registered experiment
C6_Witness ==
    /\ evaluated("maps") /\ res.err = "none"
    /\ cfg.exp = "S4" /\ cfg.LD = 7 /\ cfg.HD = RES_MAX
    /\ res.pixpha_libdir = "/lensit/temp/2_sims/fsky1000/res7/pixpha"

\* C7 as stated: with the root, the geometry and the phase cache fixed, a
\* call of get_lencmbs_lib with other unlensed spectra has another
\* lensed-sky directory.
C7_Original ==
    (evaluated("lencmbs") /\ res.err = "none" /\ cfg.HD \in ResValid) =>
        \A f \in ClsFiles :
            LET rb == apply([cfg EXCEPT !.clsfile = f])
            IN  (rb.cls_unl # res.cls_unl /\ rb.skypha_libdir = res.skypha_libdir)
                => rb.sims_libdir # res.sims_libdir

\* C7 amended: the lensed-sky directory of get_lencmbs_lib does not depend
\* on the unlensed spectra: with the root, res, nsims and wrotation fixed, a
\* call with other spectra has the same lensed-sky directory; of the
\* spectra only the presence of the rotation spectrum, which comes with
\* wrotation, changes it.
C7_DirIgnoresSpectra ==
    (evaluated("lencmbs") /\ res.err = "none") =>
        /\ \A f \in ClsFiles :
              LET rb == apply([cfg EXCEPT !.clsfile = f])
              IN  rb.err = "none" /\ rb.sims_libdir = res.sims_libdir
        /\ LET rw == apply([cfg EXCEPT !.wrotation = ~cfg.wrotation])
           IN  rw.cls_unl # res.cls_unl /\ rw.sims_libdir # res.sims_libdir

\* get_lencmbs_lib has returned a library built on the second spectra file
C7_Witness ==
    /\ evaluated("lencmbs") /\ res.err = "none"
    /\ res.cls_unl.file = "other" /\ cfg.HD = RES_MAX
    /\ res.sims_libdir = "/lensit/temp/1_sims/fsky1000/len_alms"

\* C8 as stated: get_ellmat raises, without computing a path, unless
\* 0 <= LD_res <= HD_res <= 14.
C8_Original ==
    (evaluated("ellmat") /\ ~(0 <= cfg.LD /\ cfg.LD <= cfg.HD /\ cfg.HD <= RES_MAX))
        => res.err # "none" /\ res.lib_dir = ""

(***************************************************************************)
(* Later claims.                                                           *)
(***************************************************************************)
\* the factories that resolve the cache root
NeedsRoot == {"ellmat", "fidcls", "isocov", "lencmbs", "maps"}

\* the call raises nothing but, possibly, the missing cache root
args_valid(c) ==
    /\ c.fn \in {"isocov", "maps"} => get_config(c.exp).err = "none"
    /\ c.fn \in {"ellmat", "isocov", "lencmbs", "maps"} => c.HD <= RES_MAX /\ c.LD <= RES_MAX

\* C11: when LENSIT is not set, a call of get_ellmat, get_fidcls,
\* get_lencmbs_lib, get_maps_lib or get_isocov raises on every worker before
\* anything else happens: no worker reaches a fill step or a barrier, no
\* file is read, no phase realization and no simulation is written, and
\* with otherwise valid arguments the error is the one of the missing root.
C11_NoRootFailsAtOnce ==
    (call.LENSIT = EnvUnset /\ call.fn \in NeedsRoot) =>
        /\ \A w \in Workers :
              /\ pc[w] \in {"start"} \cup ErrPcs
              /\ args_valid(call) => pc[w] \in {"start", ErrPc("env")}
              /\ stage[w] = "none" /\ nbar[w] = 0 /\ io[w] = <<>>
        /\ pha = pha0
        /\ \A s \in DOMAIN sims : \A i \in DOMAIN sims[s] : ~sims[s][i].there
        /\ inflight = {}

C11_Witness ==
    /\ call.LENSIT = EnvUnset /\ call.fn = "maps" /\ args_valid(call)
    /\ ~is_full(pha.sky)
    /\ \A w \in Workers : pc[w] = ErrPc("env")

\* C12: two calls of get_ellmat with different (LD_res, HD_res) that both
\* return have different cache directories, and two calls of get_maps_lib
\* that differ only in the registered experiment have different noisy-map
\* library directories.
C12_DistinctDirs ==
    /\ (evaluated("ellmat") /\ res.err = "none") =>
          \A l \in ResCfg, h \in ResCfg :
              LET rb == apply([cfg EXCEPT !.LD = l, !.HD = h])
              IN  (<<l, h>> # <<cfg.LD, cfg.HD>> /\ rb.err = "none") =>
                      rb.lib_dir # res.lib_dir
    /\ (evaluated("maps") /\ res.err = "none") =>
          \A e \in DOMAIN Registry \ {cfg.exp} :
              apply([cfg EXCEPT !.exp = e]).sims_libdir # res.sims_libdir

\* get_ellmat(1, 11) has returned; get_ellmat(11, 1) is another valid call
C12_Witness ==
    /\ evaluated("ellmat") /\ res.err = "none"
    /\ cfg.LD = 1 /\ cfg.HD = 11
    /\ res.lib_dir = "/lensit/temp/ellmats/ellmat_11_1"
    /\ apply([cfg EXCEPT !.LD = 11, !.HD = 1]).lib_dir = "/lensit/temp/ellmats/ellmat_1_11"

\* C13: when a phase cache is full as a call starts, no worker enters the
\* get_sim loop on it and the call leaves every realization of it as it
\* was; and no step of any run, nor the passage from one run to the next,
\* removes or rewrites a realization of a full phase cache.
C13_FullStaysFull ==
    /\ [](\A s \in Stages :
            is_full(pha0[s]) =>
                /\ pha[s] = pha0[s]
                /\ \A w \in Workers : stage[w] = s => pc[w] \notin {"fill", "crashed"})
    /\ [][\A s \in Stages :
            is_full(pha[s]) =>
                \A i \in DOMAIN pha[s] : pha'[s][i].there /\ pha'[s][i].n <= pha[s][i].n]_vars

\* the second run of a get_maps_lib call has returned on every worker over
\* the two phase caches the first run filled
C13_Witness ==
    /\ ncall = 2 /\ call.fn = "maps"
    /\ is_full(pha0.sky) /\ is_full(pha0.pix)
    /\ \A w \in Workers : pc[w] = "done" /\ full[w]

\* C14: get_ellmat(LD_res, HD_res) returns a grid of 2^LD_res points a side
\* whose side is 2^(HD_res - LD_res) * 2^LD_res = 2^HD_res base cells: the
\* side is the same for every LD_res, it is the full sky (bucket 1000) when
\* HD_res = 14, and get_ellmat(7, 14) has shape (128, 128).
C14_ShapeAndSide ==
    (evaluated("ellmat") /\ res.err = "none") =>
        /\ res.shape = Pow2Q(cfg.LD)
        /\ res.lsides = Pow2Q(cfg.HD)
        /\ \A l \in ResCfg :
              LET rb == apply([cfg EXCEPT !.LD = l])
              IN  rb.err = "none" => rb.lsides = res.lsides
        /\ cfg.HD = CELL_LOG2 => fsky_of(res.lsides) = 1000
        /\ (cfg.LD = 7 /\ cfg.HD = 14) => res.shape = <<128, 1>> /\ res.lsides = <<16384, 1>>

\* get_ellmat(7, 14) has returned
C14_Witness ==
    /\ evaluated("ellmat") /\ res.err = "none"
    /\ cfg.LD = 7 /\ cfg.HD = 14
    /\ res.shape = <<128, 1>>

\* C15: get_config("Planck") returns temperature noise 35, beam 7, ellmin 10
\* and ellmax 2048, and for every registered name the polarization noise
\* returned is sqrt(2) times the temperature noise returned.
C15_ConfigValues ==
    (evaluated("config") /\ cfg.exp \in DOMAIN Registry) =>
        /\ res.err = "none"
        /\ res.sN_uKaminP =
              Lvl(res.sN_uKamin.num, res.sN_uKamin.den, res.sN_uKamin.s + 1)
        /\ cfg.exp = "Planck" =>
              /\ res.sN_uKamin = Lvl(35, 1, 0)
              /\ res.sN_uKaminP = Lvl(35, 1, 1)
              /\ res.Beam_FWHM_amin = <<7, 1>>
              /\ res.ellmin = 10
              /\ res.ellmax = 2048

\* get_config("Planck") has returned
C15_Witness ==
    /\ evaluated("config") /\ cfg.exp = "Planck"
    /\ res.err = "none" /\ res.ellmax = 2048

\* the barriers a call that returns goes through: line 103, lines 103 and 143
BarriersOf(fn) == IF fn = "lencmbs" THEN 1 ELSE IF fn = "maps" THEN 2 ELSE 0

\* C16: when every worker makes the same call, no process dies and every
\* step terminates, every worker eventually returns from the call (or
\* raises, when the arguments make the call raise); a worker that returned
\* has entered one barrier in get_lencmbs_lib, two in get_maps_lib and none
\* in the other factories, and at the end every worker has entered the same
\* number of barriers, whatever its rank and whatever is_full() returned.
C16_AllReturnSameBarriers ==
    /\ <>(/\ Terminated
          /\ apply(call).err = "none" => \A w \in Workers : pc[w] = "done")
    /\ [](\A w \in Workers : pc[w] = "done" => nbar[w] = BarriersOf(call.fn))
    /\ [](Terminated => \A v, w \in Workers : nbar[v] = nbar[w])
    /\ [](\A w \in Workers : pc[w] = "wait" => stage[w] = (IF nbar[w] = 1 THEN "sky" ELSE "pix"))

\* every worker has returned from a get_maps_lib call that found both phase
\* caches empty, after two barriers each
C16_Witness ==
    /\ call.fn = "maps" /\ ncall = 1
    /\ missing(pha0.sky) = Indices(call) /\ missing(pha0.pix) = Indices(call)
    /\ \A w \in Workers : pc[w] = "done" /\ nbar[w] = 2

\* C17: in get_maps_lib every worker goes through the experiment lookup
\* first, then the sky-phase fill, its barrier and the lensed-sky library,
\* and only then the pixel-noise fill and its barrier: with an unknown
\* experiment no worker gets past the lookup; a worker at the pixel-noise
\* step has been through the first barrier and has read the spectra of the
\* lensed-sky library; no noise phase is written or left unfinished while
\* the sky-phase cache is incomplete; and a lensed sky or a noisy map is
\* only ever written by a returned library, never by the call.
C17_BottomUp ==
    call.fn = "maps" =>
        /\ get_config(call.exp).err # "none" =>
              \A w \in Workers :
                  /\ pc[w] \in {"start", ErrPc("experiment")}
                  /\ stage[w] = "none" /\ nbar[w] = 0 /\ io[w] = <<>>
        /\ \A w \in Workers :
              stage[w] = "pix" => nbar[w] >= 1 /\ io[w] # <<>> /\ is_full(pha.sky)
        /\ \A w \in Workers : nbar[w] = 2 => stage[w] = "pix"
        /\ (generated(pha.pix) # {} \/ \E e \in inflight : e[1] = "pix") => is_full(pha.sky)
        /\ \A s \in DOMAIN sims : \A i \in DOMAIN sims[s] :
              sims[s][i].n > 0 =>
                  /\ \A e \in sims[s][i].by : e[2] = "library"
                  /\ \E w \in Workers : pc[w] = "done"

\* the leader is in its pixel-noise loop and has written a noise phase,
\* after it filled a sky-phase cache that was not full
C17_Witness ==
    /\ call.fn = "maps"
    /\ missing(pha0.sky) # {} /\ is_full(pha.sky)
    /\ stage[Leader] = "pix" /\ pc[Leader] = "fill"
    /\ generated(pha.pix) # {}
    /\ \E w \in NonLeaders : stage[w] = "sky"

\* the indices whose get_sim worker w has completed in its current loop
looped(w) == {fill_seq(call.nsims)[k] : k \in 1 .. (idx[w] - 1)}

\* C18: when the leader has died inside its generation loop, the phase cache
\* of that loop holds the realizations found before the call, unchanged,
\* and exactly the missing ones whose get_sim the leader completed, each
\* written once by the leader; at most one realization is left unfinished,
\* and it is not counted as stored; no worker has left the barrier that
\* follows the loop, and none has returned from the factory.  Only the
\* leader can die there.
C18_CrashLeavesCommitted ==
    \A w \in Workers :
        pc[w] = "crashed" =>
            LET s == stage[w]
            IN  /\ w = Leader
                /\ \A i \in DOMAIN pha[s] : pha0[s][i].there => pha[s][i] = pha0[s][i]
                /\ generated(pha[s]) = looped(w) \cap missing(pha0[s])
                /\ \A i \in generated(pha[s]) :
                      pha[s][i].by = {<<Leader, "factory">>} /\ pha[s][i].n = 1
                /\ Cardinality(inflight) <= 1
                /\ \A e \in inflight : e[1] = s /\ ~pha[s][e[2]].there
                /\ \A v \in Workers : ~passed(v, s) /\ pc[v] # "done"

\* the leader died while it was writing the second of two missing
\* realizations; the other worker waits in the barrier
C18_Witness ==
    /\ pc[Leader] = "crashed"
    /\ generated(pha[stage[Leader]]) # {}
    /\ inflight # {}
    /\ ~is_full(pha[stage[Leader]])
    /\ \E v \in NonLeaders : pc[v] = "wait" /\ stage[v] = stage[Leader]

\* C19: when the call found the phase cache empty, the leader's loop has at
\* each of its steps generated exactly the indices 0..k-1, k the number of
\* get_sim it has completed, and is_full() is true exactly when k = nsims:
\* false at every step before the last index is written, true once the
\* loop is over.
C19_FullIffLoopDone ==
    \A s \in Stages :
        (/\ missing(pha0[s]) = Indices(call)
         /\ stage[Leader] = s
         /\ pc[Leader] # "check") =>
            LET k == idx[Leader] - 1
            IN  /\ generated(pha[s]) = 0 .. (k - 1)
                /\ is_full(pha[s]) <=> k = call.nsims
                /\ pc[Leader] \in {"fill", "crashed"} => ~is_full(pha[s])
                /\ fill_over(Leader, s) => is_full(pha[s])

\* the leader has generated index 0 of an empty cache of two and not yet
\* index 1
C19_Witness ==
    /\ call.nsims = 2
    /\ missing(pha0.sky) = Indices(call)
    /\ stage[Leader] = "sky" /\ pc[Leader] = "fill" /\ idx[Leader] = 2
    /\ generated(pha.sky) = {0}
    /\ ~is_full(pha.sky)

\* C20: while the leader has not finished the loop of a fill step (it is
\* at is_full(), inside the loop, or dead inside it) no worker has left
\* the barrier of that step and none has returned from the call; once the
\* leader is dead it stays dead (nothing restarts or replaces it, the call
\* is not made again), and a worker waiting in that barrier still waits
\* in it after every step.
C20_StalledLeaderBlocksAll ==
    /\ [](\A s \in Stages :
            (stage[Leader] = s /\ pc[Leader] \in {"check", "fill", "crashed"}) =>
                \A w \in Workers : ~passed(w, s) /\ pc[w] # "done")
    /\ [][pc[Leader] = "crashed" =>
            /\ pc'[Leader] = "crashed"
            /\ ncall' = ncall
            /\ \A v \in NonLeaders :
                  (pc[v] = "wait" /\ stage[v] = stage[Leader]) =>
                      pc'[v] = "wait" /\ ~barrier_open(v)]_vars

\* the leader died in the pixel-noise loop of get_maps_lib and every other
\* worker waits in the second barrier
C20_Witness ==
    /\ call.fn = "maps"
    /\ pc[Leader] = "crashed" /\ stage[Leader] = "pix"
    /\ \A v \in NonLeaders : pc[v] = "wait" /\ nbar[v] = 2

=============================================================================
